---- MODULE Spec2Model ----
(***************************************************************************)
(* Model of tablero/pv_model.py: class PVModel (constructor,                *)
(* validate_inputs, modelo_pv).  Python floats (IEEE doubles) are modelled  *)
(* as decimal floating point numbers of six significant digits with the    *)
(* double's range, infinities and NaN, so that overflow, underflow, NaN    *)
(* propagation and rounding are computed and not assumed.                   *)
(***************************************************************************)
EXTENDS Integers, Sequences, FiniteSets, TLC

(***************************************************************************)
(* Evaluation of an operator on the values of its arguments: each argument *)
(* is evaluated once, whatever the number of its uses.                      *)
(***************************************************************************)
Ap1(F(_), x) == CHOOSE r \in {F(a) : a \in {x}} : TRUE
Ap2(F(_, _), x, y) == CHOOSE r \in {F(a, b) : a \in {x}, b \in {y}} : TRUE
Ap3(F(_, _, _), x, y, z) ==
  CHOOSE r \in {F(a, b, c) : a \in {x}, b \in {y}, c \in {z}} : TRUE

(***************************************************************************)
(* Floating point values.  A finite value is m * 10^e with m = 0 (e = 0)    *)
(* or 10^5 <= |m| < 10^6.                                                   *)
(***************************************************************************)
MantLo == 100 * 1000
MantHi == 1000 * 1000

Abs(a) == IF a < 0 THEN -a ELSE a
Sgn(a) == IF a < 0 THEN -1 ELSE 1

Pow10(k) ==
  CASE k = 0 -> 1 [] k = 1 -> 10 [] k = 2 -> 100 [] k = 3 -> 1000
    [] k = 4 -> 10000 [] k = 5 -> 100000 [] k = 6 -> 1000000
    [] k = 7 -> 10000000 [] k = 8 -> 100000000 [] OTHER -> 1000000000

NDigits(a) ==
  IF a < 10 THEN 1 ELSE IF a < 100 THEN 2 ELSE IF a < 1000 THEN 3
  ELSE IF a < 10000 THEN 4 ELSE IF a < 100000 THEN 5
  ELSE IF a < 1000000 THEN 6 ELSE IF a < 10000000 THEN 7
  ELSE IF a < 100000000 THEN 8 ELSE IF a < 1000000000 THEN 9 ELSE 10

Zero == [c |-> "fin", m |-> 0, e |-> 0]
NaN == [c |-> "nan", m |-> 0, e |-> 0]
Inf(s) == [c |-> "inf", m |-> s, e |-> 0]

IsNaN(x) == x.c = "nan"
IsInf(x) == x.c = "inf"
IsFinite(x) == x.c = "fin"

\* The double's range: above 1.79769e308 a result is an infinity, below
\* 4.94066e-324 it is zero.
Pack(s, m, e) ==
  IF e > 303 \/ (e = 303 /\ m > 179769) THEN Inf(s)
  ELSE IF e < -329 \/ (e = -329 /\ m < 494066) THEN Zero
  ELSE [c |-> "fin", m |-> s * m, e |-> e]

\* the magnitude a >= 0 rounded to its six leading digits (half up)
RoundPack(s, a, e) ==
  IF a = 0 THEN Zero
  ELSE IF NDigits(a) > 6
  THEN IF (a + Pow10(NDigits(a) - 6) \div 2) \div Pow10(NDigits(a) - 6) = MantHi
       THEN Pack(s, MantLo, e + NDigits(a) - 5)
       ELSE Pack(s, (a + Pow10(NDigits(a) - 6) \div 2) \div Pow10(NDigits(a) - 6),
                 e + NDigits(a) - 6)
  ELSE Pack(s, a * Pow10(6 - NDigits(a)), e - (6 - NDigits(a)))
Normalize(s, a, e) == Ap3(RoundPack, s, a, e)

\* the literal m * 10^e of the source text, an int as a float
Flt(m, e) == Normalize(Sgn(m), Abs(m), e)
FromInt(k) == Normalize(Sgn(k), Abs(k), 0)
One == FromInt(1)

FSign(x) == IF x.m < 0 THEN -1 ELSE IF x.m > 0 THEN 1 ELSE 0

NegV(x) == IF IsNaN(x) THEN NaN ELSE [x EXCEPT !.m = -x.m]
Neg(x) == Ap1(NegV, x)

\* the twelve-digit product of the mantissas, in three-digit limbs
MulV(x, y) ==
  IF IsNaN(x) \/ IsNaN(y) THEN NaN
  ELSE IF IsInf(x) \/ IsInf(y)
  THEN IF FSign(x) = 0 \/ FSign(y) = 0 THEN NaN ELSE Inf(FSign(x) * FSign(y))
  ELSE IF x.m = 0 \/ y.m = 0 THEN Zero
  ELSE LET a1 == Abs(x.m) \div 1000
           b1 == Abs(x.m) % 1000
           a2 == Abs(y.m) \div 1000
           b2 == Abs(y.m) % 1000
           mid == (a1 * b2 + a2 * b1) * 1000 + b1 * b2
       IN Normalize(FSign(x) * FSign(y),
                    (a1 * a2 + mid \div 1000000) * 10
                      + (mid % 1000000) \div 100000,
                    x.e + y.e + 5)
Mul(x, y) == Ap2(MulV, x, y)

\* IEEE division (numpy): x/0 is an infinity or NaN
DivV(x, y) ==
  IF IsNaN(x) \/ IsNaN(y) THEN NaN
  ELSE IF IsInf(x) THEN (IF IsInf(y) THEN NaN
                         ELSE Inf(x.m * (IF y.m < 0 THEN -1 ELSE 1)))
  ELSE IF IsInf(y) THEN Zero
  ELSE IF y.m = 0 THEN (IF x.m = 0 THEN NaN ELSE Inf(FSign(x)))
  ELSE IF x.m = 0 THEN Zero
  ELSE LET n == Abs(x.m)
           d == Abs(y.m)
           q1 == (n * 1000) \div d
           r1 == (n * 1000) % d
           q2 == (r1 * 1000) \div d
           r2 == (r1 * 1000) % d
           q3 == (r2 * 10) \div d
       IN Normalize(FSign(x) * FSign(y), (q1 * 1000 + q2) * 10 + q3,
                    x.e - y.e - 7)
Div(x, y) == Ap2(DivV, x, y)

\* hi.e >= lo.e: the mantissas aligned with three guard digits
AddAligned(hi, lo) ==
  IF hi.e - lo.e > 8 THEN hi
  ELSE LET s == hi.m * 1000
                + FSign(lo) * ((Abs(lo.m) * 1000) \div Pow10(hi.e - lo.e))
       IN Normalize(Sgn(s), Abs(s), hi.e - 3)

AddV(x, y) ==
  IF IsNaN(x) \/ IsNaN(y) THEN NaN
  ELSE IF IsInf(x) THEN (IF IsInf(y) /\ y.m # x.m THEN NaN ELSE x)
  ELSE IF IsInf(y) THEN y
  ELSE IF x.m = 0 THEN y
  ELSE IF y.m = 0 THEN x
  ELSE IF x.e >= y.e THEN AddAligned(x, y) ELSE AddAligned(y, x)
Add(x, y) == Ap2(AddV, x, y)

Sub(x, y) == Add(x, Neg(y))

\* comparisons: every comparison with a NaN is false
LtV(x, y) ==
  IF IsNaN(x) \/ IsNaN(y) THEN FALSE
  ELSE IF IsInf(x) THEN x.m < 0 /\ ~(IsInf(y) /\ y.m < 0)
  ELSE IF IsInf(y) THEN y.m > 0
  ELSE IF FSign(x) # FSign(y) THEN FSign(x) < FSign(y)
  ELSE IF FSign(x) = 0 THEN FALSE
  ELSE IF x.e # y.e THEN (IF FSign(x) > 0 THEN x.e < y.e ELSE x.e > y.e)
  ELSE x.m < y.m
Lt(x, y) == Ap2(LtV, x, y)
LeV(x, y) == ~IsNaN(x) /\ ~IsNaN(y) /\ ~LtV(y, x)
Le(x, y) == Ap2(LeV, x, y)
FAbs(x) == Ap1(LAMBDA a : IF a.m < 0 THEN NegV(a) ELSE a, x)
FMax(x, y) == Ap2(LAMBDA a, b : IF LtV(a, b) THEN b ELSE a, x, y)
FMin(x, y) == Ap2(LAMBDA a, b : IF LtV(b, a) THEN b ELSE a, x, y)
Sq(x) == Ap1(LAMBDA a : MulV(a, a), x)

\* a * b / 10^6 for fixed point numbers in units of 10^-6
FxMulV(a, b) ==
  (a \div 1000) * (b \div 1000)
  + ((a \div 1000) * (b % 1000) + (a % 1000) * (b \div 1000)) \div 1000
  + ((a % 1000) * (b % 1000)) \div 1000000
FxMul(a, b) == Ap2(FxMulV, a, b)

\* 10^(k/10) in units of 10^-6
Tenth(k) ==
  CASE k = 0 -> 1000000 [] k = 1 -> 1258925 [] k = 2 -> 1584893
    [] k = 3 -> 1995262 [] k = 4 -> 2511886 [] k = 5 -> 3162278
    [] k = 6 -> 3981072 [] k = 7 -> 5011872 [] k = 8 -> 6309573
    [] OTHER -> 7943282

\* e^t for 0 <= t < 0.2303, both in units of 10^-6: the Taylor polynomial
ExpSmall(t) ==
  1000000 + t + FxMul(t, t) \div 2 + FxMul(FxMul(t, t), t) \div 6
  + FxMul(FxMul(FxMul(t, t), t), t) \div 24
  + FxMul(FxMul(FxMul(FxMul(t, t), t), t), t) \div 120

\* 10^(yf / 10^6) for the fixed point number yf
Exp10Fixed(yf) ==
  LET n == yf \div 1000000
      r == yf % 1000000
      dl == r % 100000
  IN Normalize(1,
       FxMul(Tenth(r \div 100000),
             Ap1(ExpSmall, (dl * 2302 + (dl * 585) \div 1000) \div 1000)),
       n - 6)

\* the float y, |y| < 1000, in units of 10^-6
ToFixed(y) ==
  IF y.e + 6 >= 0 THEN y.m * Pow10(y.e + 6)
  ELSE IF y.e + 6 < -6 THEN 0
  ELSE FSign(y) * (Abs(y.m) \div Pow10(-(y.e + 6)))

\* np.exp: e^x = 10^(x log10 e); overflow above 709.782 gives inf and
\* underflow below -745.133 gives 0.
ExpV(x) ==
  IF IsNaN(x) THEN NaN
  ELSE IF IsInf(x) THEN (IF x.m > 0 THEN Inf(1) ELSE Zero)
  ELSE IF Lt(Flt(709782, -3), x) THEN Inf(1)
  ELSE IF Lt(x, Flt(-745133, -3)) THEN Zero
  ELSE Ap1(Exp10Fixed, Ap1(ToFixed, Mul(x, Flt(434294, -6))))
Exp(x) == Ap1(ExpV, x)

(***************************************************************************)
(* Python values that can be passed as arguments: an int, a float or a     *)
(* str.  f is the value as a float (an int converts exactly).               *)
(***************************************************************************)
PyInt(k) == [t |-> "int", n |-> k, f |-> FromInt(k)]
PyFloat(x) == [t |-> "float", n |-> 0, f |-> x]
PyStr == [t |-> "str", n |-> 0, f |-> NaN]
NoArg == [t |-> "none", n |-> 0, f |-> NaN]

\* x <= 0 for a Python number
PyLeZero(x) == IF x.t = "int" THEN x.n <= 0 ELSE Le(x.f, Zero)
\* isinstance(x, (int, float)), isinstance(x, int)
IsIntOrFloat(x) == x.t \in {"int", "float"}
IsInt(x) == x.t = "int"

(***************************************************************************)
(* Bounds and input sets                                                    *)
(***************************************************************************)
\* samples of the voltage sweep (the source sweeps 1000, pv_model.py:60)
NumSamples == 5
\* calls of modelo_pv on one object
MaxCalls == 3

SeriesValues == {PyInt(0), PyInt(1), PyInt(4), PyStr}
ParallelValues == {PyInt(-1), PyInt(3), PyFloat(Flt(25, -1))}
GValues == {PyInt(0), PyInt(-5), PyInt(1000), PyFloat(NaN), PyStr}
TValues == {PyInt(0), PyInt(10), PyInt(298), PyFloat(Flt(1, -310))}
None == [c |-> "none", m |-> 0, e |-> 0]
NoObject == [exists |-> FALSE]
NoError == [type |-> "none", msg |-> "none"]
NoTable == [I |-> <<>>, V |-> <<>>, P |-> <<>>]
NoMpp == [Vmpp |-> None, Impp |-> None, P_max |-> None]
NoRef == [set |-> FALSE, G |-> NoArg, T |-> NoArg, kind |-> "none",
          err |-> NoError, tab |-> NoTable, mpp |-> NoMpp]

VARIABLES
  pc,          \* position of the program
  self,        \* the PVModel object
  G, T,        \* arguments of the current call of modelo_pv
  validated,   \* validate_inputs has returned in the current call
  I_rs, I_o, I_ph, Vpv, Ipv, Ppv,   \* locals of modelo_pv
  ier,         \* fsolve's termination flag (1: converged), only warned about
  resultados,  \* the DataFrame, by column
  mpp,         \* Vmpp, Impp, P_max
  err,         \* the exception raised
  ncalls,      \* completed calls of modelo_pv
  ref,         \* the first completed call: its arguments and its outcome
  between      \* what was called since: "other" arguments, a "failed" call

locals == <<I_rs, I_o, I_ph, Vpv, Ipv, Ppv, ier, resultados, mpp>>
history == <<ncalls, ref, between>>
vars == <<pc, self, G, T, validated, locals, err, history>>

(***************************************************************************)
(* PVModel.__init__                                                         *)
(***************************************************************************)
NewModel(s, p) ==
  [exists |-> TRUE,
   R_sh |-> Flt(54582, -2),
   k_i |-> Flt(37, -3),
   T_n |-> FromInt(298),
   q |-> Flt(160218, -24),
   n |-> Flt(10, -1),
   K |-> Flt(138065, -28),
   E_g0 |-> Flt(11, -1),
   R_s |-> Flt(39, -2),
   num_panels_series |-> s,
   num_panels_parallel |-> p,
   I_sc |-> Mul(Flt(935, -2), p.f),
   V_oc |-> Mul(Flt(474, -1), s.f),
   N_s |-> Mul(FromInt(72), s.f)]

\* float * str raises TypeError (lines 24, 25)
CtorRaises(s, p) == p.t = "str" \/ s.t = "str"

Construct ==
  /\ pc = "start"
  /\ \E s \in SeriesValues, p \in ParallelValues :
       IF CtorRaises(s, p)
       THEN /\ pc' = "ctor_raised"
            /\ err' = [type |-> "TypeError", msg |-> "multiply"]
            /\ self' = self
       ELSE /\ pc' = "idle"
            /\ self' = NewModel(s, p)
            /\ err' = err
  /\ UNCHANGED <<G, T, validated, locals, history>>

(***************************************************************************)
(* A call pv.modelo_pv(G, T)                                                *)
(***************************************************************************)
Call ==
  /\ pc = "idle"
  /\ ncalls < MaxCalls
  /\ \E g \in GValues, t \in TValues :
       /\ G' = g
       /\ T' = t
  /\ pc' = "called"
  /\ validated' = FALSE
  /\ UNCHANGED <<self, locals, err, history>>

\* validate_inputs: the message of the ValueError raised, or "none"
validate_inputs(obj, g, t) ==
  IF ~IsIntOrFloat(g) \/ PyLeZero(g) THEN "G"
  ELSE IF ~IsIntOrFloat(t) \/ PyLeZero(t) THEN "T"
  ELSE IF ~IsInt(obj.num_panels_series) \/ obj.num_panels_series.n <= 0
       THEN "series"
  ELSE IF ~IsInt(obj.num_panels_parallel) \/ obj.num_panels_parallel.n <= 0
       THEN "parallel"
  ELSE "none"

Validate ==
  /\ pc = "called"
  /\ LET msg == validate_inputs(self, G, T) IN
       IF msg # "none"
       THEN /\ pc' = "raised"
            /\ err' = [type |-> "ValueError", msg |-> msg]
            /\ validated' = validated
       ELSE /\ pc' = "validated"
            /\ validated' = TRUE
            /\ err' = err
  /\ UNCHANGED <<self, G, T, locals, history>>

\* the arguments of the two exponentials of lines 54 and 56
DenRs(obj, t) == Mul(Mul(Mul(obj.n, obj.N_s), obj.K), t.f)
ArgRs(obj, t) == Div(Mul(obj.q, obj.V_oc), DenRs(obj, t))
ArgO(obj, t) ==
  Div(Mul(Mul(obj.q, obj.E_g0), Sub(Div(One, obj.T_n), Div(One, t.f))),
      Mul(obj.n, obj.K))

Calc_I_rs(obj, t) == Div(obj.I_sc, Sub(Exp(ArgRs(obj, t)), One))
Calc_I_o(obj, irs, t) == Mul(Mul(irs, Div(t.f, obj.T_n)), Exp(ArgO(obj, t)))
Calc_I_ph(obj, g, t) ==
  Mul(Add(obj.I_sc, Mul(obj.k_i, Sub(t.f, FromInt(298)))),
      Div(g.f, FromInt(1000)))

\* a variant of lines 54-58 that keeps the photo-current in the object
DeriveFrameCaching ==
  /\ self' = [self EXCEPT !.I_sc = Calc_I_ph(self, G, T)]
  /\ UNCHANGED <<G, T, validated, Vpv, Ipv, Ppv, ier, resultados, mpp,
                 history>>

\* lines 54-58 assign locals only: the object and the arguments stay
DeriveFrame ==
  UNCHANGED <<self, G, T, validated, Vpv, Ipv, Ppv, ier, resultados, mpp,
              history>>

\* lines 54-58; a Python float division by 0.0 raises ZeroDivisionError
DeriveOperating ==
  /\ pc = "validated"
  /\ IF DenRs(self, T) = Zero
     THEN /\ pc' = "raised"
          /\ err' = [type |-> "ZeroDivisionError", msg |-> "I_rs"]
          /\ UNCHANGED <<I_rs, I_o, I_ph>>
     ELSE /\ pc' = "derived"
          /\ I_rs' = Calc_I_rs(self, T)
          /\ I_o' = Calc_I_o(self, Calc_I_rs(self, T), T)
          /\ I_ph' = Calc_I_ph(self, G, T)
          /\ err' = err
  /\ DeriveFrame

\* an array: a function on 1..n evaluated as a tuple
Vector(v) == v \o <<>>

\* a variant without the endpoint: step = (stop - start) / num
LinspaceOpen(start, stop, num) ==
  Ap1(LAMBDA step :
        Vector([i \in 1..num |-> Add(Mul(FromInt(i - 1), step), start)]),
      Div(Sub(stop, start), FromInt(num)))

\* np.linspace(start, stop, num): arange(num) * step + start, last := stop
Linspace(start, stop, num) ==
  Ap1(LAMBDA step :
        Vector([i \in 1..num |->
                  IF i = num THEN stop
                  ELSE Add(Mul(FromInt(i - 1), step), start)]),
      Div(Sub(stop, start), FromInt(num - 1)))

ZerosLike(v) == Vector([i \in 1..Len(v) |-> Zero])

\* lines 60-63
Sweep ==
  /\ pc = "derived"
  /\ Vpv' = Linspace(Zero, self.V_oc, NumSamples)
  /\ Ipv' = ZerosLike(Linspace(Zero, self.V_oc, NumSamples))
  /\ Ppv' = ZerosLike(Linspace(Zero, self.V_oc, NumSamples))
  /\ pc' = "swept"
  /\ UNCHANGED <<self, G, T, validated, I_rs, I_o, I_ph, ier,
                 resultados, mpp, err, history>>

(***************************************************************************)
(* The residual f(I, V) of lines 66-68, elementwise over the sweep          *)
(***************************************************************************)
f(obj, iph, io, t, I, V) ==
  Ap1(LAMBDA x :
        Sub(Sub(Sub(iph,
                    Mul(io, Sub(Exp(Div(Mul(obj.q, x),
                                        Mul(Mul(Mul(obj.n, obj.K), obj.N_s),
                                            t.f))),
                                One))),
                Div(x, obj.R_sh)),
            I),
      Add(V, Mul(I, obj.R_s)))

\* the closure of f and the args of fsolve
Closure(obj, iph, io, t, V) ==
  [obj |-> obj, I_ph |-> iph, I_o |-> io, T |-> t, V |-> V]

ResidualV(ctx, x) ==
  Vector([i \in 1..Len(x) |->
            f(ctx.obj, ctx.I_ph, ctx.I_o, ctx.T, x[i], ctx.V[i])])
Residual(ctx, x) == Ap2(ResidualV, ctx, x)

(***************************************************************************)
(* scipy.optimize.fsolve (MINPACK hybrd) on the whole vector: one system   *)
(* of Len(x0) unknowns.  Kept of hybrd: the forward-difference Jacobian     *)
(* (diagonal, since f is elementwise), the Newton step cut to the trust    *)
(* region, the test of the step on the norm of the WHOLE residual, the     *)
(* update of the trust region, and the termination tests.  The norm is the *)
(* maximum norm (a NaN component makes it NaN, as in enorm); the           *)
(* tolerances are those of the six-digit arithmetic.                        *)
(***************************************************************************)
EpsMch == Flt(1, -6)
XTol == Flt(1, -3)
FdEps == Flt(1, -3)
\* fsolve's default maxfev
MaxFev(n) == 200 * (n + 1)

\* a variant of the norm that leaves the NaN components out
EnormSkipNaN(v) ==
  IF \A i \in 1..Len(v) : IsNaN(v[i]) THEN Zero
  ELSE FAbs(v[CHOOSE i \in 1..Len(v) :
                 /\ ~IsNaN(v[i])
                 /\ \A j \in 1..Len(v) :
                       IsNaN(v[j]) \/ Le(FAbs(v[j]), FAbs(v[i]))])
\* enorm: the norm of a vector
EnormV(v) ==
  IF Len(v) = 0 THEN Zero
  ELSE IF \E i \in 1..Len(v) : IsNaN(v[i]) THEN NaN
  ELSE FAbs(v[CHOOSE i \in 1..Len(v) :
                 \A j \in 1..Len(v) : Le(FAbs(v[j]), FAbs(v[i]))])
Enorm(v) == Ap1(EnormV, v)

\* fdjac1: the forward differences, with the step h = eps * |x| (eps if 0)
FdStep(x) ==
  Vector([i \in 1..Len(x) |->
            Ap1(LAMBDA hh : IF hh = Zero THEN FdEps ELSE hh,
                Mul(FdEps, FAbs(x[i])))])
FdJacV(ctx, x, fvec) ==
  Ap1(LAMBDA h :
        Ap1(LAMBDA fh :
              Vector([i \in 1..Len(x) |-> Div(Sub(fh[i], fvec[i]), h[i])]),
            Residual(ctx, Vector([i \in 1..Len(x) |-> Add(x[i], h[i])]))),
      FdStep(x))
FdJac(ctx, x, fvec) == Ap3(FdJacV, ctx, x, fvec)

HybrdStart(ctx, x0) ==
  Ap1(LAMBDA fv :
        [x |-> x0, fvec |-> fv, fnorm |-> Enorm(fv), xnorm |-> Zero,
         delta |-> Zero, iter |-> 1, nfev |-> 1, ncsuc |-> 0, ncfail |-> 0,
         nslow1 |-> 0, nslow2 |-> 0, info |-> 0],
      Residual(ctx, x0))

\* delta = factor * xnorm on the first iteration (factor if that is 0)
InitialDelta(st, xnorm) ==
  IF st.iter = 1
  THEN Ap1(LAMBDA d : IF d = Zero THEN FromInt(100) ELSE d,
           Mul(FromInt(100), xnorm))
  ELSE st.delta

\* the solution of J p = -fvec
NewtonStep(fvec, J) ==
  Vector([i \in 1..Len(fvec) |-> Neg(Div(fvec[i], J[i]))])

\* dogleg: the Newton step when inside the trust region, else cut to it
Dogleg(pN, delta) ==
  Ap1(LAMBDA qnorm :
        IF Le(qnorm, delta) THEN pN
        ELSE Ap1(LAMBDA k : Vector([i \in 1..Len(pN) |-> Mul(pN[i], k)]),
                 Div(delta, qnorm)),
      Enorm(pN))

VecAdd(x, p) == Vector([i \in 1..Len(x) |-> Add(x[i], p[i])])
\* fvec + J p: the residual the linear model predicts
LinearModel(fvec, J, p) ==
  Vector([i \in 1..Len(fvec) |-> Add(fvec[i], Mul(J[i], p[i]))])

\* the scaled actual and predicted reductions
ActRed(fnorm1, fnorm) ==
  IF Lt(fnorm1, fnorm) THEN Sub(One, Sq(Div(fnorm1, fnorm))) ELSE FromInt(-1)
PreRed(temp, fnorm) ==
  IF Lt(temp, fnorm) THEN Sub(One, Sq(Div(temp, fnorm))) ELSE Zero

\* the update of the step bound
NewDelta(ratio, ncsuc, delta, pnorm) ==
  IF ~Le(Flt(1, -1), ratio) THEN Mul(Flt(5, -1), delta)
  ELSE IF Le(FAbs(Sub(ratio, One)), Flt(1, -1)) THEN Div(pnorm, Flt(5, -1))
  ELSE IF Le(Flt(5, -1), ratio) \/ ncsuc + 1 > 1
       THEN FMax(delta, Div(pnorm, Flt(5, -1)))
  ELSE delta

\* the tests for convergence and termination
Termination(delta, xnorm, fnorm, pnorm, nslow1, nslow2, nfev, n) ==
  IF Le(delta, Mul(XTol, xnorm)) \/ fnorm = Zero THEN 1
  ELSE IF nslow1 = 10 THEN 5
  ELSE IF nslow2 = 5 THEN 4
  ELSE IF Le(Mul(Flt(1, -1), FMax(Mul(Flt(1, -1), delta), pnorm)),
             Mul(EpsMch, xnorm)) THEN 3
  ELSE IF nfev >= MaxFev(n) THEN 2
  ELSE 0

\* the test of a successful iteration: ratio >= 1e-4
Accepts(ratio) == Le(Flt(1, -4), ratio)

\* t: the trial point x1 with its residual f1, the norms and the ratio of
\* the actual to the predicted reduction
HybrdUpdate(st, t) ==
  LET good == Le(Flt(1, -1), t.ratio)
      accept == Accepts(t.ratio)
      nslow1 == IF Le(Flt(1, -3), t.actred) THEN 0 ELSE st.nslow1 + 1
      nslow2 == IF Le(Flt(1, -1), t.actred) THEN 0 ELSE st.nslow2 + 1
  IN Ap3(LAMBDA delta2, xnorm2, fnorm2 :
           [x |-> IF accept THEN t.x1 ELSE st.x,
            fvec |-> IF accept THEN t.f1 ELSE st.fvec,
            fnorm |-> fnorm2,
            xnorm |-> xnorm2,
            delta |-> delta2,
            iter |-> IF accept THEN st.iter + 1 ELSE st.iter,
            nfev |-> st.nfev + 2,
            ncsuc |-> IF good THEN st.ncsuc + 1 ELSE 0,
            ncfail |-> IF good THEN 0 ELSE st.ncfail + 1,
            nslow1 |-> nslow1,
            nslow2 |-> nslow2,
            info |-> Termination(delta2, xnorm2, fnorm2, t.pnorm, nslow1,
                                 nslow2, st.nfev + 2, Len(st.x))],
         NewDelta(t.ratio, st.ncsuc, t.delta1, t.pnorm),
         IF accept THEN Enorm(t.x1) ELSE t.xnorm0,
         IF accept THEN t.fnorm1 ELSE st.fnorm)

\* one iteration: Jacobian, step, trial point, reductions, update
HybrdIterV(ctx, st) ==
  Ap2(LAMBDA J, xnorm0 :
  Ap2(LAMBDA delta0, pN :
  Ap1(LAMBDA p :
  Ap3(LAMBDA x1, pnorm, temp :
  Ap2(LAMBDA f1, delta1 :
  Ap1(LAMBDA fnorm1 :
  Ap2(LAMBDA actred, prered :
  Ap1(LAMBDA ratio :
        HybrdUpdate(st, [x1 |-> x1, f1 |-> f1, fnorm1 |-> fnorm1,
                         xnorm0 |-> xnorm0, delta1 |-> delta1,
                         pnorm |-> pnorm, actred |-> actred,
                         ratio |-> ratio]),
      IF Lt(Zero, prered) THEN Div(actred, prered) ELSE Zero),
      ActRed(fnorm1, st.fnorm), PreRed(temp, st.fnorm)),
      Enorm(f1)),
      Residual(ctx, x1), IF st.iter = 1 THEN FMin(delta0, pnorm) ELSE delta0),
      VecAdd(st.x, p), Enorm(p), Enorm(LinearModel(st.fvec, J, p))),
      Dogleg(pN, delta0)),
      InitialDelta(st, xnorm0), NewtonStep(st.fvec, J)),
      FdJac(ctx, st.x, st.fvec), IF st.iter = 1 THEN Enorm(st.x) ELSE st.xnorm)
HybrdIter(ctx, st) == Ap2(HybrdIterV, ctx, st)

RECURSIVE HybrdLoop(_, _)
HybrdLoopV(ctx, st) ==
  IF st.info # 0 THEN st ELSE HybrdLoop(ctx, HybrdIter(ctx, st))
HybrdLoop(ctx, st) == Ap2(HybrdLoopV, ctx, st)

\* fsolve(f, x0, args): the last iterate and the flag; no exception when the
\* flag is not 1, only a RuntimeWarning
fsolve(ctx, x0) ==
  Ap1(LAMBDA st : [x |-> st.x, ier |-> st.info, nfev |-> st.nfev],
      HybrdLoop(ctx, HybrdStart(ctx, x0)))

\* self.I_sc * np.ones_like(Vpv)
InitialGuess(obj, V) == Vector([i \in 1..Len(V) |-> Mul(obj.I_sc, One)])

\* line 70
Solve ==
  /\ pc = "swept"
  /\ \E r \in {fsolve(Closure(self, I_ph, I_o, T, Vpv),
                         InitialGuess(self, Vpv))} :
       /\ Ipv' = r.x
       /\ ier' = r.ier
  /\ pc' = "solved"
  /\ UNCHANGED <<self, G, T, validated, I_rs, I_o, I_ph, Vpv, Ppv,
                 resultados, mpp, err, history>>

\* a variant that leaves Ppv as line 63 made it
PowerColumnStale(V, I) == ZerosLike(V)
\* Ppv = Vpv * Ipv
PowerColumn(V, I) == Vector([i \in 1..Len(V) |-> Mul(V[i], I[i])])
\* pd.DataFrame of the three columns
DataFrame(I, V, P) == [I |-> I, V |-> V, P |-> P]

\* lines 71-74
Assemble ==
  /\ pc = "solved"
  /\ Ppv' = PowerColumn(Vpv, Ipv)
  /\ resultados' = DataFrame(Ipv, Vpv, PowerColumn(Vpv, Ipv))
  /\ pc' = "assembled"
  /\ UNCHANGED <<self, G, T, validated, I_rs, I_o, I_ph, Vpv, Ipv, ier,
                 mpp, err, history>>

\* Series.idxmax: a scan that skips NaN and keeps the first maximum;
\* 0 when every value is NaN
RECURSIVE IdxMaxScan(_, _, _)
IdxMaxScan(P, i, best) ==
  IF i > Len(P) THEN best
  ELSE IF IsNaN(P[i]) THEN IdxMaxScan(P, i + 1, best)
  ELSE IF best = 0 \/ Lt(P[best], P[i]) THEN IdxMaxScan(P, i + 1, i)
  ELSE IdxMaxScan(P, i + 1, best)
\* a variant that keeps the last maximum
RECURSIVE IdxMaxLastScan(_, _, _)
IdxMaxLastScan(P, i, best) ==
  IF i > Len(P) THEN best
  ELSE IF IsNaN(P[i]) THEN IdxMaxLastScan(P, i + 1, best)
  ELSE IF best = 0 \/ Le(P[best], P[i]) THEN IdxMaxLastScan(P, i + 1, i)
  ELSE IdxMaxLastScan(P, i + 1, best)
IdxMaxLast(P) == IdxMaxLastScan(P, 1, 0)
IdxMax(P) == IdxMaxScan(P, 1, 0)

\* resultados.loc[idx, column] for the three columns
LocRow(tab, idx) ==
  [Vmpp |-> tab.V[idx], Impp |-> tab.I[idx], P_max |-> tab.P[idx]]

\* lines 76-80; on a column of NaN only, idxmax/loc raise
Extract ==
  /\ pc = "assembled"
  /\ IF IdxMax(resultados.P) = 0
     THEN /\ pc' = "raised"
          /\ err' = [type |-> "KeyError", msg |-> "idxmax"]
          /\ mpp' = mpp
     ELSE /\ pc' = "returned"
          /\ mpp' = LocRow(resultados, IdxMax(resultados.P))
          /\ err' = err
  /\ UNCHANGED <<self, G, T, validated, I_rs, I_o, I_ph, Vpv, Ipv, Ppv, ier,
                 resultados, history>>

\* the outcome of the current call, as the caller sees it
Outcome ==
  [kind |-> pc, err |-> err,
   tab |-> IF pc = "returned" THEN resultados ELSE NoTable,
   mpp |-> IF pc = "returned" THEN mpp ELSE NoMpp]

SameArgsAsRef == ref.set /\ G = ref.G /\ T = ref.T

\* the call is over: its frame is dropped, the object stays
Finish ==
  /\ pc \in {"returned", "raised"}
  /\ pc' = "idle"
  /\ ncalls' = ncalls + 1
  /\ ref' = IF ref.set THEN ref
            ELSE [set |-> TRUE, G |-> G, T |-> T, kind |-> Outcome.kind,
                  err |-> Outcome.err, tab |-> Outcome.tab,
                  mpp |-> Outcome.mpp]
  /\ between' = IF ~ref.set \/ SameArgsAsRef THEN between
                ELSE between \cup {"other"}
                     \cup (IF err.type = "ValueError" THEN {"failed"} ELSE {})
  /\ G' = NoArg
  /\ T' = NoArg
  /\ validated' = FALSE
  /\ I_rs' = None /\ I_o' = None /\ I_ph' = None
  /\ Vpv' = <<>> /\ Ipv' = <<>> /\ Ppv' = <<>>
  /\ ier' = 0
  /\ resultados' = NoTable
  /\ mpp' = NoMpp
  /\ err' = NoError
  /\ UNCHANGED self

NoCall ==
  /\ G = NoArg /\ T = NoArg
  /\ validated = FALSE
  /\ I_rs = None /\ I_o = None /\ I_ph = None
  /\ Vpv = <<>> /\ Ipv = <<>> /\ Ppv = <<>>
  /\ ier = 0
  /\ resultados = NoTable
  /\ mpp = NoMpp
  /\ err = NoError

Init ==
  /\ pc = "start"
  /\ self = NoObject
  /\ NoCall
  /\ ncalls = 0
  /\ ref = NoRef
  /\ between = {}

Next ==
  \/ Construct
  \/ Call
  \/ Validate
  \/ DeriveOperating
  \/ Sweep
  \/ Solve
  \/ Assemble
  \/ Extract
  \/ Finish

Spec == Init /\ [][Next]_vars

(***************************************************************************)
(* The extraction of the maximum power point on its own: tables of          *)
(* NumSamples rows over the sweep of an array of 1 or 4 panels in series,   *)
(* with currents drawn from a small set, so that rows tie on the power      *)
(***************************************************************************)
MppCurrents == {FromInt(-1), FromInt(1), FromInt(2), FromInt(4)}
MppSeries == {PyInt(1), PyInt(4)}

InitMPP ==
  /\ pc = "assembled"
  /\ \E s \in MppSeries :
       /\ self = NewModel(s, PyInt(3))
       /\ Vpv = Linspace(Zero, NewModel(s, PyInt(3)).V_oc, NumSamples)
  /\ G = PyInt(1000)
  /\ T = PyInt(298)
  /\ validated = TRUE
  /\ I_rs = Calc_I_rs(self, T)
  /\ I_o = Calc_I_o(self, Calc_I_rs(self, T), T)
  /\ I_ph = Calc_I_ph(self, G, T)
  /\ Ipv \in [1..NumSamples -> MppCurrents]
  /\ Ppv = PowerColumn(Vpv, Ipv)
  /\ ier = 1
  /\ resultados = DataFrame(Ipv, Vpv, Ppv)
  /\ mpp = NoMpp
  /\ err = NoError
  /\ ncalls = 0
  /\ ref = NoRef
  /\ between = {}

NextMPP == Extract

SpecMPP == InitMPP /\ [][NextMPP]_vars

(***************************************************************************)
(* Properties                                                               *)
(***************************************************************************)
\* a positive real number; a positive integer
IsPositiveReal(x) == IsIntOrFloat(x) /\ IsFinite(x.f) /\ Lt(Zero, x.f)
IsPositiveInt(x) == x.t = "int" /\ x.n > 0
BadPoint == ~IsPositiveReal(G) \/ ~IsPositiveReal(T)
BadArray ==
  \/ ~IsPositiveInt(self.num_panels_series)
  \/ ~IsPositiveInt(self.num_panels_parallel)
\* the positions of a call from the derivation of I_rs, I_o, I_ph on
Derived == {"derived", "swept", "solved", "assembled", "returned"}

\* C1: a call whose G or T is not a positive real number fails with the
\* error of the operating point, a call on an array whose series or parallel
\* count is not a positive integer fails with the error of the array
\* configuration: the error names an offending input and no table is returned
C1_InvalidInputsFail ==
  (pc \in {"returned", "raised"} /\ (BadPoint \/ BadArray)) =>
     /\ pc = "raised"
     /\ err.type = "ValueError"
     /\ \/ err.msg \in {"G", "T"} /\ BadPoint
        \/ err.msg \in {"series", "parallel"} /\ BadArray

\* C2: the four inputs are validated before anything is derived from them,
\* the array's I_sc, V_oc and N_s included, and nothing is derived from
\* invalid inputs
C2_ValidationBeforeDerivation ==
  /\ self.exists => ~BadArray
  /\ pc = "called" => ~self.exists
  /\ pc \in Derived => validated /\ ~BadPoint /\ ~BadArray

\* sweep resolutions a caller may ask for
Resolutions == {NumSamples, 2 * NumSamples}
\* the voltages rise by equal steps, to the 4th digit of the last one
EvenlySpaced(V) ==
  \A i \in 2..(Len(V) - 1) :
     Le(FAbs(Sub(Sub(V[i + 1], V[i]), Sub(V[i], V[i - 1]))),
        Mul(Flt(1, -4), FAbs(V[Len(V)])))
NonDecreasing(V) == \A i \in 1..(Len(V) - 1) : Le(V[i], V[i + 1])

C4_MppIsFirstMaxRow ==
  pc = "returned" =>
     \E k \in 1..Len(resultados.P) :
        /\ mpp = [Vmpp |-> resultados.V[k], Impp |-> resultados.I[k],
                  P_max |-> resultados.P[k]]
        /\ \A j \in 1..Len(resultados.P) :
              ~Lt(resultados.P[k], resultados.P[j])
        /\ \A j \in 1..(k - 1) : Lt(resultados.P[j], resultados.P[k])
\* two rows tie on the maximum power
C4_Witness ==
  /\ pc = "returned"
  /\ \E j, k \in 1..Len(resultados.P) :
        /\ j < k
        /\ resultados.P[j] = mpp.P_max
        /\ resultados.P[k] = mpp.P_max

\* C5: a table is returned only when the solve converged
C5_ReturnedOnlyIfConverged == pc = "returned" => ier = 1

ExpOutOfRange(x) == IsInf(Exp(x)) \/ Exp(x) = Zero
\* C7: a call goes past the derivation only if neither exponential of I_rs
\* and I_o overflowed or underflowed, and with I_rs and I_o finite
C7_NoOverflowPassedOn ==
  pc \in Derived =>
     /\ ~ExpOutOfRange(ArgRs(self, T))
     /\ ~ExpOutOfRange(ArgO(self, T))
     /\ IsFinite(I_rs)
     /\ IsFinite(I_o)

\* C8: a call that repeats the arguments of the first call on the object has
\* the outcome of that call, whatever was called in between, and the object
\* is as its constructor made it
C8_PureFunction ==
  /\ (pc \in {"returned", "raised"} /\ SameArgsAsRef) =>
        /\ Outcome.kind = ref.kind
        /\ Outcome.err = ref.err
        /\ Outcome.tab = ref.tab
        /\ Outcome.mpp = ref.mpp
  /\ self.exists =>
        self = NewModel(self.num_panels_series, self.num_panels_parallel)
\* the first call returned a table, then a call with other arguments failed
\* validation, then the first call is repeated
C8_Witness ==
  /\ pc = "returned"
  /\ SameArgsAsRef
  /\ ref.kind = "returned"
  /\ between = {"other", "failed"}

\* the current of one sample solved on its own
SolvedAlone(i) ==
  fsolve(Closure(self, I_ph, I_o, T, <<Vpv[i]>>),
         InitialGuess(self, <<Vpv[i]>>)).x[1]
\* C9: the current of each row is the one its own voltage gives, whatever
\* the other rows are
C9_SamplesIndependent ==
  pc = "returned" =>
     \A i \in 1..Len(resultados.I) : resultados.I[i] = SolvedAlone(i)

\* C10: the power of each row is the product of its voltage and current
C10_PowerIsProduct ==
  pc = "returned" =>
     \A i \in 1..Len(resultados.P) :
        resultados.P[i] = Mul(resultados.V[i], resultados.I[i])
C10_Witness ==
  /\ pc = "returned"
  /\ \E i \in 1..Len(resultados.P) :
        /\ resultados.P[i] # Zero
        /\ resultados.I[i] # self.I_sc
====
